---- MODULE Spec2Model ----
(***************************************************************************)
(* Leak-detection dashboard: the React client (two revisions of App) and   *)
(* the prediction backend it talks to.                                     *)
(*                                                                         *)
(*   app = "dashboard"  : my-leak-dashboard/src/App.js (fixed registry)    *)
(*   app = "floorplan"  : unnamed/part_000 (registry loaded from backend)  *)
(*                                                                         *)
(* The backend (main.py / model_inference.py) is not part of the sources;  *)
(* it is modelled from the READMEs and the specification: an in-memory,    *)
(* append-only list of prediction records served over HTTP.                *)
(***************************************************************************)
EXTENDS Integers, Sequences, FiniteSets, Bags, TLC

(* ------------------------------ bounds -------------------------------- *)
MaxTime == 5
\* budget of the events the environment chooses: classifications by the
\* backend, failed requests and Stop clicks
MaxEvents == 2

\* confidences are counted in tenths: 0 .. MaxConf stands for 0.0 .. 1.0
MaxConf == 10

(* ------------------------- program constants -------------------------- *)
INTERVAL == 5

UNDEF == "undefined"
NULL == "null"
NoTime == -1

Apps == {"dashboard", "floorplan"}

SENSOR_CONFIGS ==
    << [id |-> "sensor-pipe-A", name |-> "Pipe Sensor A", location |-> <<50, 50>>],
       [id |-> "sensor-pipe-B", name |-> "Pipe Sensor B", location |-> <<50, 150>>],
       [id |-> "sensor-pipe-C", name |-> "Pipe Sensor C", location |-> <<150, 150>>] >>

\* GET /api/sensors: the registry the backend serves to the floor-plan app
SensorRegistry ==
    << [id |-> "sensor-f1-a", floor_reference |-> "Floor 1", location |-> <<60, 40>>],
       [id |-> "sensor-f2-a", floor_reference |-> "Floor 2", location |-> <<80, 90>>] >>

\* sensor.id.replace('sensor-', '').replace('-', ' ').toUpperCase()
DisplayName(id) ==
    CASE id = "sensor-f1-a" -> "F1 A"
      [] id = "sensor-f2-a" -> "F2 A"
      [] OTHER -> id

SeqRange(s) == {s[i] : i \in 1..Len(s)}

ConfigIds(configs) == {c.id : c \in SeqRange(configs)}

\* sensor ids a user may type into the manual-upload form
ManualIds(a) == {IF a = "dashboard" THEN "sensor-pipe-A" ELSE "sensor-f1-a", "manual-1"}

(* ---------------------- backend (from the READMEs) --------------------- *)
T_LOW == 6
T_HIGH == 8

\* variant: a confidence equal to the upper threshold still counts as low
SeverityAtStrict(prediction, confidence, t_low, t_high) ==
    IF prediction # "Leak" THEN "none"
    ELSE IF confidence < t_low THEN "none"
    ELSE IF confidence <= t_high THEN "low"
    ELSE "high"

\* severity is assigned to "Leak" predictions from the confidence thresholds
SeverityAt(prediction, confidence, t_low, t_high) ==
    IF prediction # "Leak" THEN "none"
    ELSE IF confidence < t_low THEN "none"
    ELSE IF confidence < t_high THEN "low"
    ELSE "high"

\* the severity under the thresholds the backend is configured with
Severity(prediction, confidence) == SeverityAt(prediction, confidence, T_LOW, T_HIGH)

\* what the classifier may return for an image (label, confidence in tenths)
Outcomes == { [prediction |-> "Leak", confidence |-> 9],
              [prediction |-> "Normal", confidence |-> 8] }

RegistryFloor(id) ==
    IF \E i \in 1..Len(SensorRegistry) : SensorRegistry[i].id = id
    THEN (CHOOSE c \in SeqRange(SensorRegistry) : c.id = id).floor_reference
    ELSE "Manual"

\* variant: the record is stamped by a clock that runs backwards
MakeRecordBackwards(a, t, id, o) ==
    [ timestamp |-> INTERVAL - t,
      sensor_id |-> id,
      prediction |-> o.prediction,
      confidence |-> o.confidence,
      severity |-> Severity(o.prediction, o.confidence),
      floor_reference |-> IF a = "floorplan" THEN RegistryFloor(id) ELSE UNDEF ]

\* the record POST /predict logs and returns
MakeRecord(a, t, id, o) ==
    [ timestamp |-> t,
      sensor_id |-> id,
      prediction |-> o.prediction,
      confidence |-> o.confidence,
      severity |-> Severity(o.prediction, o.confidence),
      floor_reference |-> IF a = "floorplan" THEN RegistryFloor(id) ELSE UNDEF ]

VARIABLES
    app,                    \* which revision of App is running
    now,                    \* wall clock, in time units (seconds)
    serverHistory,          \* backend: prediction_history list
    sensorsReq,             \* GET /api/sensors in flight (floorplan)
    streamReqs,             \* bag of sensor ids: streamSensorData runs awaiting /predict
    streamResps,            \* bag of records: ok /predict responses not yet handled
    histReqs,               \* bag of GET /prediction_history requests in flight, each
                            \* kept as the length of the server log when it was sent
    manualReq,              \* sensor id of the manual /predict request in flight, or NULL
    manualResp,             \* ok response of the manual request: {} or {record}
    sensorStates,           \* useState: id -> live state
    allSensors,             \* useState: sensor configurations
    availableFloors,        \* useState: floors list
    predictionHistory,      \* useState: history shown in the table
    loading,                \* useState: manual upload in progress
    error,                  \* useState: last error message (kind), or NULL
    manualLatestPrediction, \* useState: {} (null) or {record}
    isStreaming,            \* useState
    effectDeps,             \* dependencies the effects last ran with
    intervals,              \* live interval timers of the streaming effect
    lastResult,             \* per sensor: how its most recently completed submission ended
    events,                 \* number of environment events so far
    limits,                 \* the event budget and time horizon of this run
    filterSeverity,         \* useState: severity filter of the history table
    sortOrder,              \* useState: sort order of the history table
    selectedFloor,          \* useState (floorplan): floor filter
    selectedSensorDetails,  \* useState (floorplan): id of the sensor whose details are open, or NULL
    sensorSpecificHistory,  \* useState (floorplan): history shown in the details panel
    sensorHistReqs,         \* bag of sensor ids: GET /api/sensors/{id}/history in flight
    classifierConfig,       \* backend: the two severity thresholds
    classified,             \* backend: result of the last classification, {} or {result}
    manualSelectedFile,     \* useState: file chosen in the upload form, or NULL
    manualSensorId,         \* useState: sensor id typed into the upload form
    manualReqFile           \* file attached to the last manual /predict request, or NULL

vars == << app, now, serverHistory, sensorsReq, streamReqs, streamResps, histReqs, manualReq, manualResp, sensorStates, allSensors,
           availableFloors, predictionHistory, loading, error,
           manualLatestPrediction, isStreaming, effectDeps, intervals,
           lastResult, events, limits, filterSeverity, sortOrder, selectedFloor,
           selectedSensorDetails, sensorSpecificHistory, sensorHistReqs,
           classifierConfig, classified, manualSelectedFile, manualSensorId,
           manualReqFile >>

serverVars == << serverHistory >>
netVars == << sensorsReq, streamReqs, streamResps, histReqs, manualReq, manualResp >>
uiVars == << sensorStates, allSensors, availableFloors, predictionHistory, loading,
             error, manualLatestPrediction >>
schedVars == << isStreaming, effectDeps, intervals >>
ghostVars == << lastResult, limits >>
viewVars == << filterSeverity, sortOrder, selectedFloor >>
detailVars == << selectedSensorDetails, sensorSpecificHistory, sensorHistReqs >>
classifierVars == << classifierConfig, classified >>
formVars == << manualSelectedFile, manualSensorId, manualReqFile >>
\* state that streaming and the history refresh never touch
sideVars == << viewVars, detailVars, classifierVars, formVars >>

(* ----------------------------- helpers -------------------------------- *)
One(x) == SetToBag({x})

Put(f, k, v) == [x \in (DOMAIN f) \cup {k} |-> IF x = k THEN v ELSE f[x]]

\* the sensor configurations the streaming effect iterates over
Configs == IF app = "dashboard" THEN SENSOR_CONFIGS ELSE allSensors

\* useState initializer of sensorStates (dashboard)
InitialSensorStates ==
    [id \in ConfigIds(SENSOR_CONFIGS) |->
        LET config == CHOOSE c \in SeqRange(SENSOR_CONFIGS) : c.id = id IN
        [ id |-> UNDEF,
          sensor_id |-> config.id,
          name |-> config.name,
          location |-> config.location,
          floor_reference |-> UNDEF,
          prediction |-> "Unknown",
          confidence |-> 0,
          timestamp |-> NoTime,
          severity |-> "none" ]]

\* the initial values that are the same in every specification below
InitCore(a, lim) ==
    /\ app = a
    /\ now = 0
    /\ sensorsReq = (app = "floorplan")
    /\ streamReqs = EmptyBag
    /\ streamResps = EmptyBag
    /\ histReqs = EmptyBag
    /\ manualReq = NULL
    /\ manualResp = {}
    /\ sensorStates = IF app = "dashboard" THEN InitialSensorStates ELSE << >>
    /\ allSensors = << >>
    /\ availableFloors = << "All" >>
    /\ loading = FALSE
    /\ error = NULL
    /\ manualLatestPrediction = {}
    /\ isStreaming = (app = "dashboard")
    /\ effectDeps = [mounted |-> FALSE, isStreaming |-> FALSE, allSensors |-> << >>]
    /\ intervals = << >>
    /\ lastResult = << >>
    /\ events = 0
    /\ limits = lim
    /\ filterSeverity = "All"
    /\ sortOrder = "Newest First"
    /\ selectedFloor = "All"
    /\ selectedSensorDetails = NULL
    /\ sensorSpecificHistory = << >>
    /\ sensorHistReqs = EmptyBag
    /\ classified = {}
    /\ manualSelectedFile = NULL
    /\ manualSensorId = ""
    /\ manualReqFile = NULL

\* a freshly started backend and a freshly mounted App
InitWith(a, lim) ==
    /\ InitCore(a, lim)
    /\ serverHistory = << >>
    /\ predictionHistory = << >>
    /\ classifierConfig = [t_low |-> T_LOW, t_high |-> T_HIGH]

Init == \E a \in Apps : InitWith(a, [events |-> MaxEvents, time |-> MaxTime])

(* ------------------------- effects and timers ------------------------- *)
CurrentDeps == [mounted |-> TRUE, isStreaming |-> isStreaming, allSensors |-> allSensors]

EffectsPending == effectDeps # CurrentDeps

\* variant: each call begins two runs instead of one
StartRunsTwice(ids) == streamReqs' = streamReqs (+) SetToBag(ids) (+) SetToBag(ids)

\* streamSensorData up to its first await: the run is now in flight
StartRuns(ids) == streamReqs' = streamReqs (+) SetToBag(ids)

\* setInterval(() => streamSensorData(config), 5000) for each config; since
\* and fired record when the timer was created and how often it has run
NewIntervals(configs) ==
    [i \in 1..Len(configs) |->
        [id |-> configs[i].id, due |-> INTERVAL, since |-> now, fired |-> 0]]

\* variant: the effect returns no cleanup, so old timers stay registered
CleanupKeepsTimers(ivs) == ivs

\* cleanup of the previous streaming effect: clearInterval on each of its timers
Cleanup(ivs) == << >>

\* fetchPredictionHistory up to its first await: the request is in flight
FetchHistory == SetToBag({Len(serverHistory)})

\* the dashboard's effect fetches the history on every run; the floor-plan
\* app has a separate effect on [allSensors] that fetches once sensors exist
HistoryFetchesOfEffects ==
    IF app = "dashboard" THEN FetchHistory
    ELSE IF (~effectDeps.mounted \/ effectDeps.allSensors # allSensors)
            /\ Len(allSensors) > 0
         THEN FetchHistory ELSE EmptyBag

\* passive effects flushed after a render whose dependencies changed
RunEffects ==
    /\ EffectsPending
    /\ effectDeps' = CurrentDeps
    /\ histReqs' = histReqs (+) HistoryFetchesOfEffects
    /\ IF isStreaming /\ Len(Configs) > 0
       THEN /\ StartRuns(ConfigIds(Configs))
            /\ intervals' = Cleanup(intervals) \o NewIntervals(Configs)
       ELSE /\ intervals' = Cleanup(intervals)
            /\ UNCHANGED streamReqs
    /\ UNCHANGED << app, sideVars, now, serverVars, sensorsReq, streamResps,
                    manualReq, manualResp, uiVars, isStreaming, events, ghostVars >>

\* Start Stream button (disabled while streaming)
StartStream ==
    /\ ~isStreaming
    /\ isStreaming' = TRUE
    /\ UNCHANGED << app, sideVars, now, serverVars, netVars, uiVars, effectDeps, intervals, events, ghostVars >>

\* Stop Stream button (disabled while not streaming)
StopStream ==
    /\ isStreaming
    /\ events < limits.events
    /\ isStreaming' = FALSE
    /\ events' = events + 1
    /\ UNCHANGED << app, sideVars, now, serverVars, netVars, uiVars, effectDeps, intervals, ghostVars >>

SetMin(S) == CHOOSE x \in S : \A y \in S : x <= y

\* time until the next timer is due (one interval when no timer is live)
NextDue == IF intervals = << >> THEN INTERVAL
           ELSE SetMin({intervals[i].due : i \in 1..Len(intervals)})

\* time passes up to the next instant a timer is due; a due timer fires
\* before time moves on
Tick ==
    /\ ~EffectsPending
    /\ NextDue > 0
    /\ now + NextDue <= limits.time
    /\ now' = now + NextDue
    /\ intervals' = [i \in 1..Len(intervals) |-> [intervals[i] EXCEPT !.due = @ - NextDue]]
    /\ UNCHANGED << app, sideVars, serverVars, netVars, uiVars, isStreaming, effectDeps, events, ghostVars >>

\* variant: a due timer waits until no streamed run is in flight
TimerFireSerial(i) ==
    /\ i \in 1..Len(intervals)
    /\ intervals[i].due = 0
    /\ \A j \in 1..(i-1) : intervals[j].due > 0
    /\ streamReqs = EmptyBag
    /\ streamReqs' = streamReqs (+) SetToBag({intervals[i].id})
    /\ intervals' = [intervals EXCEPT ![i].due = INTERVAL, ![i].fired = @ + 1]
    /\ UNCHANGED << app, sideVars, now, serverVars, sensorsReq, streamResps, histReqs,
                    manualReq, manualResp, uiVars, isStreaming, effectDeps, events, ghostVars >>

\* setInterval callback: () => streamSensorData(config); timers due at the
\* same instant run in the order they were created
TimerFire(i) ==
    /\ i \in 1..Len(intervals)
    /\ intervals[i].due = 0
    /\ \A j \in 1..(i-1) : intervals[j].due > 0
    /\ StartRuns({intervals[i].id})
    /\ intervals' = [intervals EXCEPT ![i].due = INTERVAL, ![i].fired = @ + 1]
    /\ UNCHANGED << app, sideVars, now, serverVars, sensorsReq, streamResps, histReqs,
                    manualReq, manualResp, uiVars, isStreaming, effectDeps, events, ghostVars >>

(* ------------------------------ backend ------------------------------- *)
\* variant: the result of a streamed reading is logged twice
ServerPredictLogsTwice(id, o) ==
    /\ BagIn(id, streamReqs)
    /\ events < limits.events
    /\ events' = events + 1
    /\ LET rec == MakeRecord(app, now, id, o) IN
        /\ serverHistory' = Append(Append(serverHistory, rec), rec)
        /\ streamResps' = streamResps (+) One(rec)
    /\ streamReqs' = streamReqs (-) One(id)
    /\ UNCHANGED << app, sideVars, now, sensorsReq, histReqs, manualReq, manualResp,
                    uiVars, schedVars, ghostVars >>

\* POST /predict for a streamed reading: classify, log, respond
ServerPredict(id, o) ==
    /\ BagIn(id, streamReqs)
    /\ events < limits.events
    /\ events' = events + 1
    /\ LET rec == MakeRecord(app, now, id, o) IN
        /\ serverHistory' = Append(serverHistory, rec)
        /\ streamResps' = streamResps (+) One(rec)
    /\ streamReqs' = streamReqs (-) One(id)
    /\ UNCHANGED << app, sideVars, now, sensorsReq, histReqs, manualReq, manualResp,
                    uiVars, schedVars, ghostVars >>

\* POST /predict for a manual upload
ServerManual(o) ==
    /\ manualReq # NULL
    /\ manualResp = {}
    /\ events < limits.events
    /\ events' = events + 1
    /\ LET rec == MakeRecord(app, now, manualReq, o) IN
        /\ serverHistory' = Append(serverHistory, rec)
        /\ manualResp' = {rec}
    /\ manualReq' = NULL
    /\ UNCHANGED << app, sideVars, now, sensorsReq, streamReqs, streamResps, histReqs,
                    uiVars, schedVars, ghostVars >>

(* ------------------------- streamSensorData --------------------------- *)
\* setSensorStates(prev => ({...prev, [id]: {...prev[id], prediction: 'Error',
\* severity: 'none', timestamp: now}})) in the catch block
ErrorMark(states, id) ==
    IF id \in DOMAIN states
    THEN [states[id] EXCEPT !.prediction = "Error", !.severity = "none", !.timestamp = now]
    ELSE [ id |-> UNDEF, sensor_id |-> UNDEF, name |-> UNDEF, location |-> UNDEF,
           floor_reference |-> UNDEF, prediction |-> "Error", confidence |-> UNDEF,
           timestamp |-> now, severity |-> "none" ]

\* variant: the catch block also clears the timer of the sensor that failed
StreamFailClearsTimer(id) ==
    /\ BagIn(id, streamReqs)
    /\ events < limits.events
    /\ events' = events + 1
    /\ streamReqs' = streamReqs (-) One(id)
    /\ error' = "predict"
    /\ sensorStates' = Put(sensorStates, id, ErrorMark(sensorStates, id))
    /\ lastResult' = Put(lastResult, id, "failed")
    /\ intervals' = SelectSeq(intervals, LAMBDA iv : iv.id # id)
    /\ UNCHANGED << app, sideVars, now, serverVars, sensorsReq, streamResps, histReqs,
                    manualReq, manualResp, allSensors, availableFloors, predictionHistory,
                    loading, manualLatestPrediction, isStreaming, effectDeps, limits >>

\* the catch block: image fetch failed, or /predict answered with an error
StreamFail(id) ==
    /\ BagIn(id, streamReqs)
    /\ events < limits.events
    /\ events' = events + 1
    /\ streamReqs' = streamReqs (-) One(id)
    /\ error' = "predict"
    /\ sensorStates' = Put(sensorStates, id, ErrorMark(sensorStates, id))
    /\ lastResult' = Put(lastResult, id, "failed")
    /\ UNCHANGED << app, sideVars, now, serverVars, sensorsReq, streamResps, histReqs,
                    manualReq, manualResp, allSensors, availableFloors, predictionHistory,
                    loading, manualLatestPrediction, schedVars, limits >>

ConfigOf(id) == CHOOSE c \in SeqRange(Configs) : c.id = id

\* variant: the entry is the response alone, named after the sensor id and
\* without a place on the schematic
ObservedStateDataOnly(data) ==
    [ id |-> UNDEF,
      sensor_id |-> data.sensor_id,
      name |-> data.sensor_id,
      location |-> << -1, -1 >>,
      floor_reference |-> data.floor_reference,
      prediction |-> data.prediction,
      confidence |-> data.confidence,
      timestamp |-> data.timestamp,
      severity |-> data.severity ]

\* dashboard: { ...data, location: sensorConfig.location, name: sensorConfig.name }
ObservedState(data) ==
    [ id |-> UNDEF,
      sensor_id |-> data.sensor_id,
      name |-> ConfigOf(data.sensor_id).name,
      location |-> ConfigOf(data.sensor_id).location,
      floor_reference |-> data.floor_reference,
      prediction |-> data.prediction,
      confidence |-> data.confidence,
      timestamp |-> data.timestamp,
      severity |-> data.severity ]

\* the ok branch after await response.json()
StreamSuccess(data) ==
    /\ BagIn(data, streamResps)
    /\ streamResps' = streamResps (-) One(data)
    /\ sensorStates' = IF app = "dashboard"
                       THEN Put(sensorStates, data.sensor_id, ObservedState(data))
                       ELSE sensorStates
    /\ histReqs' = histReqs (+) FetchHistory
    /\ lastResult' = Put(lastResult, data.sensor_id, "ok")
    /\ UNCHANGED << app, sideVars, now, serverVars, sensorsReq, streamReqs,
                    manualReq, manualResp, allSensors, availableFloors, predictionHistory,
                    loading, error, manualLatestPrediction, schedVars, events, limits >>

(* ----------------------- fetchPredictionHistory ----------------------- *)
FloorRank(f) ==
    CASE f = "All" -> 1
      [] f = "Floor 1" -> 2
      [] f = "Floor 2" -> 3
      [] f = "Manual" -> 4
      [] OTHER -> 5

RECURSIVE SortFloors(_)
\* Array.prototype.sort() on floor names (string order)
SortFloors(s) ==
    IF Len(s) <= 1 THEN s
    ELSE LET m == CHOOSE i \in 1..Len(s) :
                    /\ \A j \in 1..Len(s) : FloorRank(s[i]) <= FloorRank(s[j])
                    /\ \A j \in 1..(i-1) : FloorRank(s[j]) > FloorRank(s[i])
         IN << s[m] >> \o SortFloors(SubSeq(s, 1, m-1) \o SubSeq(s, m+1, Len(s)))

\* variant: an item does not replace a classification the sensor already shows
MergeItemKeepsFirst(states, item) ==
    IF item.sensor_id \in DOMAIN states
    THEN IF states[item.sensor_id].prediction \in {"Leak", "Normal"}
         THEN states
         ELSE [states EXCEPT ![item.sensor_id] =
                 [@ EXCEPT !.prediction = item.prediction,
                           !.confidence = item.confidence,
                           !.timestamp = item.timestamp,
                           !.severity = item.severity]]
    ELSE Put(states, item.sensor_id,
             [ id |-> item.sensor_id,
               sensor_id |-> item.sensor_id,
               name |-> item.sensor_id,
               location |-> << -1, -1 >>,
               floor_reference |-> IF item.floor_reference = UNDEF THEN "Manual"
                                   ELSE item.floor_reference,
               prediction |-> item.prediction,
               confidence |-> item.confidence,
               timestamp |-> item.timestamp,
               severity |-> item.severity ])

\* newStates[item.sensor_id] = {...} for one item of the history
MergeItem(states, item) ==
    IF item.sensor_id \in DOMAIN states
    THEN [states EXCEPT ![item.sensor_id] =
             [@ EXCEPT !.prediction = item.prediction,
                       !.confidence = item.confidence,
                       !.timestamp = item.timestamp,
                       !.severity = item.severity]]
    ELSE Put(states, item.sensor_id,
             [ id |-> item.sensor_id,
               sensor_id |-> item.sensor_id,
               name |-> item.sensor_id,
               location |-> << -1, -1 >>,
               floor_reference |-> IF item.floor_reference = UNDEF THEN "Manual"
                                   ELSE item.floor_reference,
               prediction |-> item.prediction,
               confidence |-> item.confidence,
               timestamp |-> item.timestamp,
               severity |-> item.severity ])

RECURSIVE MergeHistory(_, _)
\* data.forEach(item => ...) inside the setSensorStates updater
MergeHistory(states, data) ==
    IF data = << >> THEN states
    ELSE MergeHistory(MergeItem(states, Head(data)), Tail(data))

ManualFloorAdded(states, data) ==
    \E i \in 1..Len(data) :
        /\ data[i].sensor_id \notin DOMAIN states
        /\ data[i].floor_reference = "Manual"

Includes(s, x) == \E i \in 1..Len(s) : s[i] = x

\* GET /prediction_history answers with the whole log as of some moment
\* between the request (log length sent) and the response: its first n records
HistoryData(sent, n) == SubSeq(serverHistory, 1, n)

\* the ok branch of fetchPredictionHistory
HistoryResponse(sent, n) ==
    /\ BagIn(sent, histReqs)
    /\ n \in sent..Len(serverHistory)
    /\ histReqs' = histReqs (-) One(sent)
    /\ LET data == HistoryData(sent, n) IN
        /\ predictionHistory' = data
        /\ IF app = "dashboard"
           THEN UNCHANGED << sensorStates, availableFloors >>
           ELSE /\ sensorStates' = MergeHistory(sensorStates, data)
                /\ availableFloors' =
                     IF ManualFloorAdded(sensorStates, data) /\ ~Includes(availableFloors, "Manual")
                     THEN SortFloors(Append(availableFloors, "Manual"))
                     ELSE availableFloors
    /\ UNCHANGED << app, sideVars, now, serverVars, sensorsReq, streamReqs, streamResps,
                    manualReq, manualResp, allSensors, loading, error,
                    manualLatestPrediction, schedVars, events, ghostVars >>

\* the catch block of fetchPredictionHistory
HistoryFail(sent) ==
    /\ BagIn(sent, histReqs)
    /\ events < limits.events
    /\ events' = events + 1
    /\ histReqs' = histReqs (-) One(sent)
    /\ error' = "history"
    /\ UNCHANGED << app, sideVars, now, serverVars, sensorsReq, streamReqs, streamResps,
                    manualReq, manualResp, sensorStates, allSensors, availableFloors,
                    predictionHistory, loading, manualLatestPrediction, schedVars, ghostVars >>

(* --------------------------- fetchAllSensors -------------------------- *)
RECURSIVE Dedupe(_)
Dedupe(s) ==
    IF s = << >> THEN << >>
    ELSE LET rest == Dedupe(SubSeq(s, 1, Len(s) - 1)) IN
         IF Includes(rest, s[Len(s)]) THEN rest ELSE Append(rest, s[Len(s)])

RegistryStates(data) ==
    [id \in ConfigIds(data) |->
        LET sensor == CHOOSE c \in SeqRange(data) : c.id = id IN
        [ id |-> sensor.id,
          sensor_id |-> UNDEF,
          name |-> DisplayName(sensor.id),
          location |-> sensor.location,
          floor_reference |-> sensor.floor_reference,
          prediction |-> "Unknown",
          confidence |-> 0,
          timestamp |-> NoTime,
          severity |-> "none" ]]

SensorsResponse ==
    /\ sensorsReq
    /\ sensorsReq' = FALSE
    /\ allSensors' = SensorRegistry
    /\ availableFloors' =
         SortFloors(<< "All" >> \o Dedupe([i \in 1..Len(SensorRegistry) |->
                                              SensorRegistry[i].floor_reference]))
    /\ sensorStates' = RegistryStates(SensorRegistry)
    /\ UNCHANGED << app, sideVars, now, serverVars, streamReqs, streamResps, histReqs,
                    manualReq, manualResp, predictionHistory, loading, error,
                    manualLatestPrediction, schedVars, events, ghostVars >>

SensorsFail ==
    /\ sensorsReq
    /\ events < limits.events
    /\ events' = events + 1
    /\ sensorsReq' = FALSE
    /\ error' = "sensors"
    /\ UNCHANGED << app, sideVars, now, serverVars, streamReqs, streamResps, histReqs,
                    manualReq, manualResp, sensorStates, allSensors, availableFloors,
                    predictionHistory, loading, manualLatestPrediction, schedVars, ghostVars >>

(* -------------------------- handleManualSubmit ------------------------ *)
\* variant: the upload form only works while streaming is stopped
ManualSubmitWhenStopped(id) ==
    /\ ~loading
    /\ ~isStreaming
    /\ events < limits.events
    /\ loading' = TRUE
    /\ error' = NULL
    /\ manualReq' = id
    /\ UNCHANGED << app, sideVars, now, serverVars, sensorsReq, streamReqs, streamResps,
                    histReqs, manualResp, sensorStates, allSensors, availableFloors,
                    predictionHistory, manualLatestPrediction, schedVars, events, ghostVars >>

\* handleManualSubmit past its check of the form, for a file the backend can
\* read and sensor id `id`; the fields of the form are kept by the
\* specification of the upload form only
ManualSubmit(id) ==
    /\ ~loading
    /\ events < limits.events
    /\ loading' = TRUE
    /\ error' = NULL
    /\ manualReq' = id
    /\ UNCHANGED << app, sideVars, now, serverVars, sensorsReq, streamReqs, streamResps, histReqs, manualResp, sensorStates, allSensors, availableFloors,
                    predictionHistory, manualLatestPrediction, schedVars, events, ghostVars >>

ManualSuccess ==
    /\ manualResp # {}
    /\ manualResp' = {}
    /\ manualLatestPrediction' = manualResp
    /\ histReqs' = histReqs (+) FetchHistory
    /\ loading' = FALSE
    /\ lastResult' = Put(lastResult, (CHOOSE r \in manualResp : TRUE).sensor_id, "ok")
    /\ manualSelectedFile' = NULL
    /\ manualSensorId' = ""
    /\ UNCHANGED << app, viewVars, detailVars, classifierVars, manualReqFile, now, serverVars, sensorsReq, streamReqs, streamResps,
                    manualReq, sensorStates, allSensors, availableFloors,
                    predictionHistory, error, schedVars, events, limits >>

\* variant: the catch block without the finally, the flag is never reset
ManualFailKeepsLoading ==
    /\ manualReq # NULL
    /\ events < limits.events
    /\ events' = events + 1
    /\ manualReq' = NULL
    /\ error' = "manual"
    /\ manualLatestPrediction' = {}
    /\ loading' = loading
    /\ UNCHANGED << app, sideVars, now, serverVars, sensorsReq, streamReqs, streamResps, histReqs, manualResp, sensorStates, allSensors, availableFloors,
                    predictionHistory, schedVars, ghostVars >>

ManualFail ==
    /\ manualReq # NULL
    /\ events < limits.events
    /\ events' = events + 1
    /\ manualReq' = NULL
    /\ error' = "manual"
    /\ manualLatestPrediction' = {}
    /\ loading' = FALSE
    /\ UNCHANGED << app, sideVars, now, serverVars, sensorsReq, streamReqs, streamResps, histReqs, manualResp, sensorStates, allSensors, availableFloors,
                    predictionHistory, schedVars, ghostVars >>

(* --------------------------- specification ---------------------------- *)
Next ==
    \/ RunEffects
    \/ StartStream
    \/ StopStream
    \/ Tick
    \/ \E i \in 1..Len(intervals) : TimerFire(i)
    \/ \E id \in BagToSet(streamReqs), o \in Outcomes : ServerPredict(id, o)
    \/ \E o \in Outcomes : ServerManual(o)
    \/ \E id \in BagToSet(streamReqs) : StreamFail(id)
    \/ \E data \in BagToSet(streamResps) : StreamSuccess(data)
    \/ \E sent \in BagToSet(histReqs), n \in 0..Len(serverHistory) : HistoryResponse(sent, n)
    \/ \E sent \in BagToSet(histReqs) : HistoryFail(sent)
    \/ SensorsResponse
    \/ SensorsFail
    \/ \E id \in ManualIds(app) : ManualSubmit(id)
    \/ ManualSuccess
    \/ ManualFail

Spec == Init /\ [][Next]_vars


(* ===================== properties of the aggregated view =============== *)
\* a live state that carries a classification (not Unknown, not Error)
HasRecord(st) == st.prediction \in {"Leak", "Normal"}

\* the id a live state is about: `id` where the entry has one, else sensor_id
EntryId(st) == IF st.id # UNDEF THEN st.id ELSE st.sensor_id

IndicesFor(hist, id) == {i \in 1..Len(hist) : hist[i].sensor_id = id}

SetMax(S) == CHOOSE x \in S : \A y \in S : y <= x

\* newest timestamp among the records of a sensor in a history, NoTime if none
NewestTs(hist, id) ==
    IF IndicesFor(hist, id) = {} THEN NoTime
    ELSE SetMax({hist[i].timestamp : i \in IndicesFor(hist, id)})

SameReading(st, rec) ==
    /\ st.prediction = rec.prediction
    /\ st.confidence = rec.confidence
    /\ st.timestamp = rec.timestamp
    /\ st.severity = rec.severity

\* nothing that could still change the live state of sensor id is in flight
SensorQuiet(id) ==
    /\ ~BagIn(id, streamReqs)
    /\ \A r \in BagToSet(streamResps) : r.sensor_id # id
    /\ manualReq # id
    /\ \A r \in manualResp : r.sensor_id # id
    /\ histReqs = EmptyBag
    /\ ~sensorsReq

\* C1: in every reachable state, for every sensor id whose updates have all
\* been delivered, the latest record, when present, is about that id and is a
\* record of the log with the maximum timestamp among the records logged for
\* that id.
C1_LatestIsNewest ==
    \A id \in DOMAIN sensorStates :
        (HasRecord(sensorStates[id]) /\ SensorQuiet(id)) =>
            /\ EntryId(sensorStates[id]) = id
            /\ \E i \in IndicesFor(serverHistory, id) :
                   /\ serverHistory[i].timestamp = NewestTs(serverHistory, id)
                   /\ SameReading(sensorStates[id], serverHistory[i])

\* C2: a sensor's latest record is only ever replaced by a record whose
\* timestamp is not older (monotonic merge), whatever the order of arrival.
C2_MonotonicMerge ==
    [][\A id \in (DOMAIN sensorStates) \cap (DOMAIN sensorStates') :
          (HasRecord(sensorStates[id]) /\ HasRecord(sensorStates'[id])) =>
              sensorStates'[id].timestamp >= sensorStates[id].timestamp]_vars

\* a step that runs the catch block of streamSensorData
FailStep == \E id \in BagToSet(streamReqs) : StreamFail(id)

\* C3 (as stated): a failing run changes neither the history nor the
\* aggregated sensor state.
C3_FailureChangesNothing ==
    [][FailStep => UNCHANGED << serverHistory, predictionHistory, sensorStates >>]_vars

\* no submission for sensor id is under way
NoSubmissionInFlight(id) ==
    /\ ~BagIn(id, streamReqs)
    /\ \A r \in BagToSet(streamResps) : r.sensor_id # id
    /\ manualReq # id
    /\ \A r \in manualResp : r.sensor_id # id

\* C4: a sensor whose most recent submission failed (every submission for it
\* has completed, and the last one to complete failed) is not presented with
\* the Normal label.
C4_FailedNotShownNormal ==
    \A id \in (DOMAIN lastResult) \cap (DOMAIN sensorStates) :
        (lastResult[id] = "failed" /\ NoSubmissionInFlight(id)) =>
            sensorStates[id].prediction # "Normal"

(* ========================= properties of the scheduler ================= *)
TimersOf(id) == {i \in 1..Len(intervals) : intervals[i].id = id}

\* C5: each sensor has at most one live periodic timer, and timers are live
\* only for the configured sensors.
C5_AtMostOneTimer ==
    /\ \A i \in 1..Len(intervals) : Cardinality(TimersOf(intervals[i].id)) = 1
    /\ \A i \in 1..Len(intervals) : intervals[i].id \in ConfigIds(Configs)

\* streaming has been stopped and started again: the timers are those of the restart
C5_Witness ==
    /\ app = "dashboard"
    /\ Len(intervals) = Len(SENSOR_CONFIGS)
    /\ \A i \in 1..Len(intervals) : intervals[i].since = INTERVAL

\* the stop has taken effect: the effect cleanup has run
Stopped == ~isStreaming /\ ~EffectsPending

\* C6: once a stop has taken effect no timer is live and no sensor begins a
\* new pipeline run until streaming is started again.
C6_StopHalts ==
    /\ [](Stopped => intervals = << >>)
    /\ [][Stopped => \A id \in ConfigIds(Configs) :
                        CopiesIn(id, streamReqs') <= CopiesIn(id, streamReqs)]_vars

\* stopped for a whole interval, with a run from before the stop still in flight
C6_Witness ==
    /\ Stopped
    /\ now = INTERVAL
    /\ streamReqs # EmptyBag

\* the timer is due and it is its turn among the timers due at this instant
Due(i) == intervals[i].due = 0 /\ \A j \in 1..(i-1) : intervals[j].due > 0

\* C7: a live timer has run once per elapsed interval, and a due timer can
\* run, whatever the other sensors' runs are doing (in flight, slow or failed).
C7_IndependentTicks ==
    \A i \in 1..Len(intervals) :
        /\ intervals[i].due > 0 =>
               intervals[i].fired = (now - intervals[i].since) \div INTERVAL
        /\ intervals[i].due = 0 =>
               intervals[i].fired + 1 = (now - intervals[i].since) \div INTERVAL
        /\ Due(i) => ENABLED TimerFire(i)

\* one sensor's first run never completed and another one's failed, yet a
\* third sensor's timer has run on the interval
C7_Witness ==
    \E i, j, k \in 1..Len(intervals) :
        /\ intervals[i].id # intervals[j].id
        /\ intervals[j].id # intervals[k].id
        /\ intervals[i].id # intervals[k].id
        /\ intervals[i].fired = 1
        /\ CopiesIn(intervals[j].id, streamReqs) = 2
        /\ intervals[k].id \in DOMAIN lastResult
        /\ lastResult[intervals[k].id] = "failed"

(* ============ scenario: three sensors streaming for two intervals ====== *)
\* the dashboard streams its three sensors for two intervals; nobody clicks
\* or uploads, and the budget allows one more event than two intervals' runs
ScenarioLimits == [events |-> 2 * Len(SENSOR_CONFIGS) + 1, time |-> 2 * INTERVAL]

InitScenario == InitWith("dashboard", ScenarioLimits)

\* in the scenario every image is classified the same way
ScenarioOutcome == [prediction |-> "Normal", confidence |-> 8]

NextScenario ==
    \/ RunEffects
    \/ Tick
    \/ \E i \in 1..Len(intervals) : TimerFire(i)
    \/ \E id \in BagToSet(streamReqs) : ServerPredict(id, ScenarioOutcome)
    \/ \E id \in BagToSet(streamReqs) : StreamFail(id)

SpecScenario == InitScenario /\ [][NextScenario]_vars

\* two intervals have run: the clock shows two intervals since the start
TwoIntervalsRun == now = 2 * INTERVAL

\* C8 (as stated): after two intervals there are at least 3 and at most 6
\* appended records, each of a registered sensor.
C8_ThreeToSixRecords ==
    TwoIntervalsRun =>
        /\ Len(serverHistory) >= Len(SENSOR_CONFIGS)
        /\ Len(serverHistory) <= 2 * Len(SENSOR_CONFIGS)
        /\ \A i \in 1..Len(serverHistory) :
               serverHistory[i].sensor_id \in ConfigIds(SENSOR_CONFIGS)

\* runs begun so far: the immediate run and one per firing of each timer
RECURSIVE RunsBegun(_)
RunsBegun(ivs) ==
    IF ivs = << >> THEN 0 ELSE 1 + Head(ivs).fired + RunsBegun(Tail(ivs))

\* C8 (amended): every appended record is of a registered sensor, and each
\* run begun appends at most one record: records plus runs in flight never
\* exceed the runs begun, and equal them while no run has failed. So until
\* the ticks that end the second interval fire there are at most 6 records;
\* there may be fewer than 3, when runs fail or stall.
C8_AtMostSixRecords ==
    /\ \A i \in 1..Len(serverHistory) :
           serverHistory[i].sensor_id \in ConfigIds(SENSOR_CONFIGS)
    /\ \A i \in 1..Len(intervals) :
           Cardinality(IndicesFor(serverHistory, intervals[i].id)) <= 1 + intervals[i].fired
    /\ Len(serverHistory) + BagCardinality(streamReqs) <= RunsBegun(intervals)
    /\ events = Len(serverHistory) =>
           Len(serverHistory) + BagCardinality(streamReqs) = RunsBegun(intervals)
    /\ (\A i \in 1..Len(intervals) : intervals[i].fired < 2) =>
           Len(serverHistory) <= 2 * Len(SENSOR_CONFIGS)

\* two intervals have run and all six runs begun so far have been recorded
C8_Witness ==
    /\ TwoIntervalsRun
    /\ \A i \in 1..Len(intervals) : intervals[i].fired < 2
    /\ Len(serverHistory) = 2 * Len(SENSOR_CONFIGS)

(* ====================== properties of the history view ================= *)
NewestVisible(id) ==
    LET shown == IF id \in DOMAIN sensorStates /\ HasRecord(sensorStates[id])
                 THEN sensorStates[id].timestamp ELSE NoTime
        listed == NewestTs(predictionHistory, id)
    IN IF shown >= listed THEN shown ELSE listed

KnownIds == {serverHistory[i].sensor_id : i \in 1..Len(serverHistory)}

\* C9: for each sensor id, the newest record visible to readers (history
\* view and live state) never becomes an older one.
C9_VisibleInTimestampOrder ==
    [][\A id \in KnownIds :
          (NewestVisible(id) # NoTime /\ NewestVisible(id)' # NoTime) =>
              NewestVisible(id)' >= NewestVisible(id)]_vars

IsPrefix(s, t) == Len(s) <= Len(t) /\ SubSeq(t, 1, Len(s)) = s

\* C10: the history readers see never shrinks or reorders: each later state
\* of it has every earlier state as a prefix.
C10_HistoryAppendOnly ==
    [][IsPrefix(predictionHistory, predictionHistory')]_vars

(* ======================= the classifier's severity tier ================ *)
\* the threshold pairs the backend may be configured with: t_low <= t_high
ThresholdPairs ==
    {p \in [t_low : 0..MaxConf, t_high : 0..MaxConf] : p.t_low <= p.t_high}

Labels == {"Leak", "Normal"}

\* no events; the clock stands still
NoLimits == [events |-> 0, time |-> 0]

InitSeverity ==
    /\ InitCore("dashboard", NoLimits)
    /\ serverHistory = << >>
    /\ predictionHistory = << >>
    /\ classifierConfig \in ThresholdPairs

\* the classifier turns a winning class and its probability into a result
Classify(label, c) ==
    /\ classified' = {[ prediction |-> label,
                        confidence |-> c,
                        severity |-> SeverityAt(label, c, classifierConfig.t_low,
                                                classifierConfig.t_high) ]}
    /\ UNCHANGED << app, now, serverVars, netVars, uiVars, schedVars, events, ghostVars,
                    viewVars, detailVars, classifierConfig, formVars >>

NextSeverity == \E label \in Labels, c \in 0..MaxConf : Classify(label, c)

SpecSeverity == InitSeverity /\ [][NextSeverity]_vars

\* C15: for all confidences c and thresholds t_low <= t_high, a Leak result
\* has severity none iff c < t_low, low iff t_low <= c < t_high and high iff
\* c >= t_high; a Normal result always has severity none.
C15_SeverityTiers ==
    \A r \in classified :
        LET c == r.confidence
            lo == classifierConfig.t_low
            hi == classifierConfig.t_high
        IN IF r.prediction = "Leak"
           THEN /\ (r.severity = "none") <=> (c < lo)
                /\ (r.severity = "low") <=> (lo <= c /\ c < hi)
                /\ (r.severity = "high") <=> (c >= hi)
           ELSE r.severity = "none"

\* a Leak whose confidence is exactly the upper threshold is classified high
C15_Witness ==
    \E r \in classified :
        /\ r.prediction = "Leak"
        /\ classifierConfig.t_low < classifierConfig.t_high
        /\ r.confidence = classifierConfig.t_high
        /\ r.severity = "high"

(* ===================== the history table: filter and sort ============== *)
SeverityFilters == {"All", "high", "low", "none"}
SortOrders == {"Newest First", "Oldest First", "Confidence High-Low", "Confidence Low-High"}

\* variant: the 'none' filter lets every record through
MatchesFilterNoneIsAll(item) ==
    /\ (app = "floorplan" /\ selectedFloor # "All") => item.floor_reference = selectedFloor
    /\ filterSeverity \in {"All", "none"} \/ item.severity = filterSeverity

\* the callback of .filter(...)
MatchesFilter(item) ==
    /\ (app = "floorplan" /\ selectedFloor # "All") => item.floor_reference = selectedFloor
    /\ filterSeverity = "All" \/ item.severity = filterSeverity

\* variant: the confidence orders compare confidences only
CompareConfidenceOnly(order, a, b) ==
    CASE order = "Newest First" -> b.timestamp - a.timestamp
      [] order = "Oldest First" -> a.timestamp - b.timestamp
      [] order = "Confidence High-Low" -> b.confidence - a.confidence
      [] order = "Confidence Low-High" -> a.confidence - b.confidence
      [] OTHER -> 0

\* the callback of .sort(...): negative when a goes first, positive when b does
Compare(order, a, b) ==
    LET isALeak == a.prediction = "Leak"
        isBLeak == b.prediction = "Leak"
    IN CASE order = "Newest First" -> b.timestamp - a.timestamp
         [] order = "Oldest First" -> a.timestamp - b.timestamp
         [] order = "Confidence High-Low" ->
                IF isALeak /\ ~isBLeak THEN -1
                ELSE IF ~isALeak /\ isBLeak THEN 1
                ELSE b.confidence - a.confidence
         [] order = "Confidence Low-High" ->
                IF isALeak /\ ~isBLeak THEN -1
                ELSE IF ~isALeak /\ isBLeak THEN 1
                ELSE a.confidence - b.confidence
         [] OTHER -> 0

\* variant: an element is placed before the elements it compares equal to
InsertBeforeEquals(order, s, x) ==
    LET before == {i \in 1..Len(s) : Compare(order, s[i], x) < 0}
        k == IF before = {} THEN 0 ELSE SetMax(before)
    IN SubSeq(s, 1, k) \o << x >> \o SubSeq(s, k + 1, Len(s))

\* one step of a stable sort: x goes after every element that does not
\* have to come after it
InsertSorted(order, s, x) ==
    LET before == {i \in 1..Len(s) : Compare(order, s[i], x) <= 0}
        k == IF before = {} THEN 0 ELSE SetMax(before)
    IN SubSeq(s, 1, k) \o << x >> \o SubSeq(s, k + 1, Len(s))

RECURSIVE SortWith(_, _)
\* Array.prototype.sort(compare): a stable sort (ECMAScript 2019 and later)
SortWith(order, s) ==
    IF s = << >> THEN << >>
    ELSE InsertSorted(order, SortWith(order, SubSeq(s, 1, Len(s) - 1)), s[Len(s)])

\* [...predictionHistory].filter(...)
Filtered == SelectSeq(predictionHistory, MatchesFilter)

\* the rows of the history table
filteredAndSortedHistory == SortWith(sortOrder, Filtered)

(* ---- the table over bounded histories ---- *)
MaxViewLen == 4

\* classifications that give each severity: high, low and none
ViewOutcomes == { [prediction |-> "Leak", confidence |-> 9],
                  [prediction |-> "Leak", confidence |-> 7],
                  [prediction |-> "Normal", confidence |-> 8] }

\* the records the backend may have logged at the two instants for the ids
\* a user can upload for
ViewPool(a) ==
    {MakeRecord(a, t, id, o) : t \in {0, INTERVAL}, id \in ManualIds(a), o \in ViewOutcomes}

\* logs of up to MaxViewLen records; the backend stamps records as it
\* appends them, so timestamps never decrease along the log
Histories(a) ==
    UNION { {h \in [1..n -> ViewPool(a)] :
                \A i \in 1..(n - 1) : h[i].timestamp <= h[i + 1].timestamp} :
            n \in 0..MaxViewLen }

\* floors the floor-plan app offers once the registry and h are loaded
FloorsFor(h) ==
    SortFloors(<< "All" >> \o Dedupe([i \in 1..Len(SensorRegistry) |->
                                          SensorRegistry[i].floor_reference])
               \o (IF \E i \in 1..Len(h) : h[i].floor_reference = "Manual"
                   THEN << "Manual" >> ELSE << >>))

\* the App with streaming stopped, nothing in flight and the log h loaded
\* (dashboard: the runs begun at mount failed; floor plan: registry loaded)
InitView ==
    \E a \in Apps : \E h \in Histories(a) :
        /\ app = a
        /\ now = INTERVAL
        /\ serverHistory = h
        /\ predictionHistory = h
        /\ sensorsReq = FALSE
        /\ streamReqs = EmptyBag
        /\ streamResps = EmptyBag
        /\ histReqs = EmptyBag
        /\ manualReq = NULL
        /\ manualResp = {}
        /\ allSensors = IF a = "dashboard" THEN << >> ELSE SensorRegistry
        /\ sensorStates =
             IF a = "dashboard"
             THEN [id \in DOMAIN InitialSensorStates |->
                      [InitialSensorStates[id] EXCEPT !.prediction = "Error", !.timestamp = 0]]
             ELSE MergeHistory(RegistryStates(SensorRegistry), h)
        /\ availableFloors = IF a = "dashboard" THEN << "All" >> ELSE FloorsFor(h)
        /\ loading = FALSE
        /\ error = IF a = "dashboard" THEN "predict" ELSE NULL
        /\ manualLatestPrediction = {}
        /\ isStreaming = FALSE
        /\ effectDeps = [mounted |-> TRUE, isStreaming |-> FALSE, allSensors |-> allSensors]
        /\ intervals = << >>
        /\ lastResult = IF a = "dashboard"
                        THEN [id \in DOMAIN InitialSensorStates |-> "failed"]
                        ELSE << >>
        /\ events = 0
        /\ limits = [events |-> 0, time |-> INTERVAL]
        /\ filterSeverity = "All"
        /\ sortOrder = "Newest First"
        /\ selectedFloor = "All"
        /\ selectedSensorDetails = NULL
        /\ sensorSpecificHistory = << >>
        /\ sensorHistReqs = EmptyBag
        /\ classifierConfig = [t_low |-> T_LOW, t_high |-> T_HIGH]
        /\ classified = {}
        /\ manualSelectedFile = NULL
        /\ manualSensorId = ""
        /\ manualReqFile = NULL

\* onChange of the severity <select>
SetFilterSeverity(f) ==
    /\ filterSeverity' = f
    /\ UNCHANGED << app, now, serverVars, netVars, uiVars, schedVars, events, ghostVars,
                    sortOrder, selectedFloor, detailVars, classifierVars, formVars >>

\* onChange of the sort <select>
SetSortOrder(o) ==
    /\ sortOrder' = o
    /\ UNCHANGED << app, now, serverVars, netVars, uiVars, schedVars, events, ghostVars,
                    filterSeverity, selectedFloor, detailVars, classifierVars, formVars >>

\* onChange of the floor <select> (floor-plan app)
SetSelectedFloor(fl) ==
    /\ app = "floorplan"
    /\ Includes(availableFloors, fl)
    /\ selectedFloor' = fl
    /\ UNCHANGED << app, now, serverVars, netVars, uiVars, schedVars, events, ghostVars,
                    filterSeverity, sortOrder, detailVars, classifierVars, formVars >>

NextView ==
    \/ \E f \in SeverityFilters : SetFilterSeverity(f)
    \/ \E o \in SortOrders : SetSortOrder(o)
    \/ \E fl \in SeqRange(availableFloors) : SetSelectedFloor(fl)

SpecView == InitView /\ [][NextView]_vars

(* ---- properties of the table ---- *)
Count(s, r) == Cardinality({i \in 1..Len(s) : s[i] = r})

\* s and t hold the same records, each as often
SameRecords(s, t) ==
    \A r \in SeqRange(s) \cup SeqRange(t) : Count(s, r) = Count(t, r)

HasSeverity(item) == filterSeverity = "All" \/ item.severity = filterSeverity

\* C16 (as stated): the table shows exactly the records whose severity
\* equals the filter, in their arrival order (all records under 'All').
C16_FilterKeepsArrivalOrder ==
    IF filterSeverity = "All"
    THEN SameRecords(filteredAndSortedHistory, predictionHistory)
    ELSE filteredAndSortedHistory = SelectSeq(predictionHistory, HasSeverity)

\* the rows are in the order the selected sort order asks for
RowsSorted ==
    \A i, j \in 1..Len(filteredAndSortedHistory) :
        i < j => Compare(sortOrder, filteredAndSortedHistory[i],
                         filteredAndSortedHistory[j]) <= 0

\* C16 (amended): the table shows exactly the records that pass the severity
\* filter ('All': every severity) and, in the floor-plan app, the floor
\* filter, none other and none missing, in the selected sort order; under
\* 'Oldest First' that is their arrival order.
C16_FilterExactThenSorted ==
    /\ SameRecords(filteredAndSortedHistory, Filtered)
    /\ \A i \in 1..Len(filteredAndSortedHistory) :
           /\ HasSeverity(filteredAndSortedHistory[i])
           /\ (app = "floorplan" /\ selectedFloor # "All") =>
                  filteredAndSortedHistory[i].floor_reference = selectedFloor
    /\ \A i \in 1..Len(predictionHistory) :
           MatchesFilter(predictionHistory[i]) =>
               Count(filteredAndSortedHistory, predictionHistory[i]) > 0
    /\ RowsSorted
    /\ sortOrder = "Oldest First" => filteredAndSortedHistory = Filtered

\* severities high, none, low, high are loaded, the filter is 'high' and the
\* table shows two different records, oldest first
C16_Witness ==
    /\ Len(predictionHistory) = MaxViewLen
    /\ predictionHistory[1].severity = "high"
    /\ predictionHistory[2].severity = "none"
    /\ predictionHistory[3].severity = "low"
    /\ predictionHistory[MaxViewLen].severity = "high"
    /\ predictionHistory[1] # predictionHistory[MaxViewLen]
    /\ filterSeverity = "high"
    /\ sortOrder = "Oldest First"
    /\ filteredAndSortedHistory = << predictionHistory[1], predictionHistory[MaxViewLen] >>

ByConfidence == sortOrder \in {"Confidence High-Low", "Confidence Low-High"}

\* C17: sorted by confidence, in either direction, every Leak row precedes
\* every other row, rows of the same class are ordered by confidence in
\* the requested direction, and the rows are a permutation of the filtered
\* records.
C17_LeaksFirstThenConfidence ==
    ByConfidence =>
        /\ SameRecords(filteredAndSortedHistory, Filtered)
        /\ Len(filteredAndSortedHistory) = Len(Filtered)
        /\ \A i, j \in 1..Len(filteredAndSortedHistory) :
               i < j =>
                   LET a == filteredAndSortedHistory[i]
                       b == filteredAndSortedHistory[j]
                   IN /\ b.prediction = "Leak" => a.prediction = "Leak"
                      /\ ((a.prediction = "Leak") <=> (b.prediction = "Leak")) =>
                             IF sortOrder = "Confidence High-Low"
                             THEN a.confidence >= b.confidence
                             ELSE a.confidence <= b.confidence

\* ascending by confidence, yet a Leak of confidence 9 stands before a
\* Normal of confidence 8, and a Leak of lower confidence before that Leak
C17_Witness ==
    /\ sortOrder = "Confidence Low-High"
    /\ \E i, j, k \in 1..Len(filteredAndSortedHistory) :
          /\ i < j /\ j < k
          /\ filteredAndSortedHistory[i].prediction = "Leak"
          /\ filteredAndSortedHistory[j].prediction = "Leak"
          /\ filteredAndSortedHistory[i].confidence < filteredAndSortedHistory[j].confidence
          /\ filteredAndSortedHistory[k].prediction = "Normal"
          /\ filteredAndSortedHistory[k].confidence < filteredAndSortedHistory[j].confidence

RECURSIVE Restrict(_, _)
\* the subsequence of s of the elements in S
Restrict(s, S) ==
    IF s = << >> THEN << >>
    ELSE IF Head(s) \in S THEN << Head(s) >> \o Restrict(Tail(s), S)
    ELSE Restrict(Tail(s), S)

\* C18: the sort is stable: for every sort order, records that compare
\* equal (same timestamp, or same class and confidence) keep their arrival
\* order in the table.
C18_SortStable ==
    \A a, b \in SeqRange(Filtered) :
        (a # b /\ Compare(sortOrder, a, b) = 0) =>
            Restrict(filteredAndSortedHistory, {a, b}) = Restrict(Filtered, {a, b})

\* ascending by confidence: two different records of the same class and
\* confidence are shown in arrival order, after a record of that class
\* with a lower confidence that arrived after them
C18_Witness ==
    /\ sortOrder = "Confidence Low-High"
    /\ \E i, j, k \in 1..Len(Filtered) :
          /\ i < j /\ j < k
          /\ Filtered[i] # Filtered[j]
          /\ Compare(sortOrder, Filtered[i], Filtered[j]) = 0
          /\ Filtered[k].prediction = Filtered[j].prediction
          /\ Filtered[k].confidence < Filtered[j].confidence
          /\ Restrict(filteredAndSortedHistory, {Filtered[i], Filtered[j], Filtered[k]})
                 = << Filtered[k], Filtered[i], Filtered[j] >>

(* ================== the sensor details panel (floor plan) ============== *)
\* GET /api/sensors/{id}/history: the records of the log for that sensor,
\* in the order of the log
SensorHistory(id) == SelectSeq(serverHistory, LAMBDA r : r.sensor_id = id)

\* onClick of a sensor dot: setSelectedSensorDetails(sensorData); the effect
\* on [selectedSensorDetails] then requests that sensor's history
SelectSensor(id) ==
    /\ app = "floorplan"
    /\ id \in DOMAIN sensorStates
    /\ id # selectedSensorDetails
    /\ events < limits.events
    /\ events' = events + 1
    /\ selectedSensorDetails' = id
    /\ sensorHistReqs' = sensorHistReqs (+) One(id)
    /\ UNCHANGED << app, now, serverVars, netVars, uiVars, schedVars, ghostVars,
                    viewVars, sensorSpecificHistory, classifierVars, formVars >>

\* fetchSensorHistory, ok branch: setSensorSpecificHistory(data)
SensorHistoryResponse(id) ==
    /\ BagIn(id, sensorHistReqs)
    /\ sensorHistReqs' = sensorHistReqs (-) One(id)
    /\ sensorSpecificHistory' = SensorHistory(id)
    /\ UNCHANGED << app, now, serverVars, netVars, uiVars, schedVars, events, ghostVars,
                    viewVars, selectedSensorDetails, classifierVars, formVars >>

\* fetchSensorHistory, catch block: the error is only logged
SensorHistoryFail(id) ==
    /\ BagIn(id, sensorHistReqs)
    /\ events < limits.events
    /\ events' = events + 1
    /\ sensorHistReqs' = sensorHistReqs (-) One(id)
    /\ UNCHANGED << app, now, serverVars, netVars, uiVars, schedVars, ghostVars,
                    viewVars, selectedSensorDetails, sensorSpecificHistory, classifierVars,
                    formVars >>

\* the floor-plan app with streaming off: uploads, refreshes and the panel;
\* the budget allows one upload and two selections
InitDetails == InitWith("floorplan", [events |-> MaxEvents + 1, time |-> 0])

NextDetails ==
    \/ RunEffects
    \/ SensorsResponse
    \/ \E id \in ManualIds(app) : ManualSubmit(id)
    \/ \E o \in Outcomes : ServerManual(o)
    \/ ManualSuccess
    \/ \E sent \in BagToSet(histReqs), n \in 0..Len(serverHistory) : HistoryResponse(sent, n)
    \/ \E id \in DOMAIN sensorStates : SelectSensor(id)
    \/ \E id \in BagToSet(sensorHistReqs) : SensorHistoryResponse(id)
    \/ \E id \in BagToSet(sensorHistReqs) : SensorHistoryFail(id)

SpecDetails == InitDetails /\ [][NextDetails]_vars

\* C19: the history held for the selected sensor has only records of that
\* sensor, in time order, also when the selection changed while an earlier
\* history request was in flight.
C19_DetailsOfSelectedSensor ==
    selectedSensorDetails # NULL =>
        /\ \A i \in 1..Len(sensorSpecificHistory) :
               sensorSpecificHistory[i].sensor_id = selectedSensorDetails
        /\ \A i, j \in 1..Len(sensorSpecificHistory) :
               i < j => sensorSpecificHistory[i].timestamp <= sensorSpecificHistory[j].timestamp

(* ========================= properties of the log ======================= *)
\* C11: for any two records of the same sensor, the one appended to the
\* history first has a timestamp that is not later than the other's, also
\* while further submissions for that sensor are in flight.
C11_LogOrderedPerSensor ==
    \A i, j \in 1..Len(serverHistory) :
        (i < j /\ serverHistory[i].sensor_id = serverHistory[j].sensor_id) =>
            serverHistory[i].timestamp <= serverHistory[j].timestamp

\* two records of one sensor, logged at different times, with a further
\* submission (streamed or manual) for that sensor still in flight
C11_Witness ==
    \E i, j \in 1..Len(serverHistory) :
        /\ i < j
        /\ serverHistory[i].sensor_id = serverHistory[j].sensor_id
        /\ serverHistory[i].timestamp < serverHistory[j].timestamp
        /\ \/ manualReq = serverHistory[i].sensor_id
           \/ BagIn(serverHistory[i].sensor_id, streamReqs)

\* the record of sensor id that was appended last to a history
LastFor(hist, id) == hist[SetMax(IndicesFor(hist, id))]

IdsIn(hist) == {hist[i].sensor_id : i \in 1..Len(hist)}

\* a step of the floor-plan app that applies a history response
AppliesHistory(sent, n) == app = "floorplan" /\ HistoryResponse(sent, n)

\* C12: once the history has been read back, the latest record of every
\* sensor in it is the record appended last for that sensor (the newest one,
\* the log being ordered per sensor); a sensor with no record in the log has
\* no latest record.
C12_LatestAfterAppend ==
    /\ [][\A sent \in BagToSet(histReqs), n \in 0..Len(serverHistory) :
             AppliesHistory(sent, n) =>
                 \A id \in IdsIn(SubSeq(serverHistory, 1, n)) :
                     /\ id \in DOMAIN sensorStates'
                     /\ EntryId(sensorStates'[id]) = id
                     /\ SameReading(sensorStates'[id],
                                    LastFor(SubSeq(serverHistory, 1, n), id))]_vars
    /\ [](\A id \in DOMAIN sensorStates :
             IndicesFor(serverHistory, id) = {} => ~HasRecord(sensorStates[id]))

\* the floor-plan app has read back a history with two different records of
\* one sensor and shows the one appended last
C12_Witness ==
    /\ app = "floorplan"
    /\ \E id \in DOMAIN sensorStates :
          /\ Cardinality(IndicesFor(predictionHistory, id)) >= 2
          /\ \E i \in IndicesFor(predictionHistory, id) :
                 ~SameReading(sensorStates[id], predictionHistory[i])
          /\ SameReading(sensorStates[id], LastFor(predictionHistory, id))

(* ===================== properties of the sensor registry =============== *)
\* C13: loading the registry for a sensor that already has an entry (a
\* record for it was observed before) leaves that sensor's latest record
\* unchanged.
C13_RegisterKeepsLatest ==
    [][SensorsResponse =>
          \A id \in (DOMAIN sensorStates) \cap ConfigIds(SensorRegistry) :
              HasRecord(sensorStates[id]) =>
                  /\ id \in DOMAIN sensorStates'
                  /\ SameReading(sensorStates'[id], sensorStates[id])]_vars

\* C14: after a successful submission for a sensor id, registered or not,
\* and once every response has been delivered, the aggregated sensor map
\* has an entry for that id.
C14_EntryAfterSubmission ==
    \A id \in DOMAIN lastResult :
        (lastResult[id] = "ok" /\ SensorQuiet(id)) => id \in DOMAIN sensorStates

(* ===================== manual uploads and the schedule ================= *)
\* a step of the manual upload path
ManualStep ==
    \/ \E id \in ManualIds(app) : ManualSubmit(id)
    \/ \E o \in Outcomes : ServerManual(o)
    \/ ManualSuccess
    \/ ManualFail

\* C20: the manual path is exempt from the schedule: whatever the state of
\* the scheduler (stopped, timers set, runs in flight), an upload can be
\* submitted unless one is already being handled, its answer can be applied,
\* and no step of the manual path changes a timer or the streaming flag.
C20_ManualExemptFromSchedule ==
    /\ [][ManualStep => UNCHANGED << isStreaming, intervals, effectDeps >>]_vars
    /\ [](\A id \in ManualIds(app) :
             (~loading /\ events < limits.events) => ENABLED ManualSubmit(id))
    /\ [](manualResp # {} => ENABLED ManualSuccess)

\* a manual upload has been applied while streaming was on, timers were set
\* and streamed runs were in flight
C20_Witness ==
    /\ manualLatestPrediction # {}
    /\ isStreaming
    /\ intervals # << >>
    /\ streamReqs # EmptyBag

(* ========================== the upload form ============================ *)
\* files a user may pick: a readable PNG, a file named and typed as PNG whose
\* content cannot be decoded, and an image of another type
Files == {"good.png", "corrupt.png", "photo.jpg"}

\* file.type, as the browser reports it
FileType(f) == IF f \in {"good.png", "corrupt.png"} THEN "image/png" ELSE "image/jpeg"

\* whether the backend can decode the upload as an RGB PNG
Decodable(f) == f = "good.png"

\* what can be typed into the sensor id field
FormIds(a) == ManualIds(a) \cup {""}

\* onChange of the file input; f = NULL: the file dialog was cancelled
handleManualFileChange(f) ==
    /\ IF f # NULL /\ FileType(f) = "image/png"
       THEN /\ manualSelectedFile' = f
            /\ error' = NULL
       ELSE /\ manualSelectedFile' = NULL
            /\ error' = "file"
    /\ UNCHANGED << app, now, serverVars, netVars, sensorStates, allSensors, availableFloors,
                    predictionHistory, loading, manualLatestPrediction, schedVars, events,
                    ghostVars, viewVars, detailVars, classifierVars, manualSensorId,
                    manualReqFile >>

\* onChange of the sensor id input
handleManualSensorIdChange(s) ==
    /\ manualSensorId' = s
    /\ UNCHANGED << app, now, serverVars, netVars, uiVars, schedVars, events, ghostVars,
                    viewVars, detailVars, classifierVars, manualSelectedFile, manualReqFile >>

\* onSubmit of the form (the button is disabled while loading), until the
\* POST is sent
handleManualSubmit ==
    /\ ~loading
    /\ IF manualSelectedFile = NULL \/ manualSensorId = ""
       THEN /\ error' = "form"
            /\ UNCHANGED << loading, manualReq, manualReqFile >>
       ELSE /\ loading' = TRUE
            /\ error' = NULL
            /\ manualReq' = manualSensorId
            /\ manualReqFile' = manualSelectedFile
    /\ UNCHANGED << app, now, serverVars, sensorsReq, streamReqs, streamResps, histReqs,
                    manualResp, sensorStates, allSensors, availableFloors, predictionHistory,
                    manualLatestPrediction, schedVars, events, ghostVars, viewVars,
                    detailVars, classifierVars, manualSelectedFile, manualSensorId >>

\* POST /predict for an upload the backend can decode
ServerReadsUpload(o) == Decodable(manualReqFile) /\ ServerManual(o)

InitForm == \E a \in Apps : InitWith(a, [events |-> MaxEvents, time |-> 0])

\* the form, the backend's answers to uploads (ManualFail: the request
\* failed or the backend refused the upload) and the history refresh
NextForm ==
    \/ RunEffects
    \/ SensorsResponse
    \/ \E f \in Files \cup {NULL} : handleManualFileChange(f)
    \/ \E s \in FormIds(app) : handleManualSensorIdChange(s)
    \/ handleManualSubmit
    \/ \E o \in Outcomes : ServerReadsUpload(o)
    \/ ManualFail
    \/ ManualSuccess
    \/ \E sent \in BagToSet(histReqs), n \in 0..Len(serverHistory) : HistoryResponse(sent, n)

SpecForm == InitForm /\ [][NextForm]_vars

\* the form holds a defective input: no file, a file the backend cannot
\* decode, or no sensor id
DefectiveForm ==
    \/ manualSelectedFile = NULL
    \/ ~Decodable(manualSelectedFile)
    \/ manualSensorId = ""

\* C21: a submission with a defective input (no image, a non-PNG or
\* undecodable image, an empty sensor id) is rejected at once with an error:
\* no request is issued, no record is appended, and the history, the sensor
\* states and the latest manual prediction stay as they are.
C21_DefectiveInputRejected ==
    [][/\ (handleManualSubmit /\ DefectiveForm) =>
              /\ error' # NULL
              /\ UNCHANGED << netVars, serverHistory, predictionHistory, sensorStates,
                              manualLatestPrediction >>
       /\ \A f \in Files \cup {NULL} :
              ((f = NULL \/ FileType(f) # "image/png") /\ handleManualFileChange(f)) =>
                  /\ error' # NULL
                  /\ UNCHANGED << netVars, serverHistory, predictionHistory, sensorStates,
                                  manualLatestPrediction >>
       /\ (ManualFail /\ manualReqFile # NULL /\ ~Decodable(manualReqFile)) =>
              UNCHANGED << serverHistory, predictionHistory, sensorStates,
                           manualLatestPrediction >>]_vars

(* ====================== failed runs and the schedule =================== *)
\* C22: a failed run appends no record and leaves the schedule alone: the
\* streaming flag and every timer are as before, so while streaming stays
\* on the sensor still has its timer, which runs on the interval, fires when
\* due, and the run it starts can be classified and applied like any other.
C22_FailureKeepsSchedule ==
    /\ [][FailStep => UNCHANGED << serverHistory, isStreaming, intervals, effectDeps >>]_vars
    /\ [](\A id \in (DOMAIN lastResult) \cap ConfigIds(Configs) :
             (lastResult[id] = "failed" /\ isStreaming /\ ~EffectsPending) =>
                 /\ Cardinality(TimersOf(id)) = 1
                 /\ \A i \in TimersOf(id) :
                        /\ intervals[i].fired + (IF intervals[i].due = 0 THEN 1 ELSE 0)
                               = (now - intervals[i].since) \div INTERVAL
                        /\ Due(i) => ENABLED TimerFire(i))
    /\ [](\A id \in BagToSet(streamReqs), o \in Outcomes :
             events < limits.events => ENABLED ServerPredict(id, o))
    /\ [](\A data \in BagToSet(streamResps) : ENABLED StreamSuccess(data))

\* floor-plan app: a sensor's first run failed at time 0 (its dot still shows
\* the error mark), its timer fired one interval later, and that run was
\* classified, logged and handled successfully
C22_Witness ==
    /\ app = "floorplan"
    /\ isStreaming
    /\ \E id \in (DOMAIN lastResult) \cap (DOMAIN sensorStates) :
          /\ sensorStates[id].prediction = "Error"
          /\ sensorStates[id].timestamp = 0
          /\ lastResult[id] = "ok"
          /\ \E i \in TimersOf(id) : intervals[i].fired = 1
          /\ \E k \in IndicesFor(serverHistory, id) : serverHistory[k].timestamp = INTERVAL

(* ==================== updates of the aggregated sensor map ============== *)
\* C23: the sensor map never shows a partially updated entry, and updates
\* for different sensors do not lose one another: an entry that shows a
\* classification shows the label, confidence, timestamp and severity of one
\* record logged for that sensor, and it stays in the map with a
\* classification unless a run of that very sensor fails.
C23_NoPartialOrLostUpdate ==
    /\ [](\A id \in DOMAIN sensorStates :
             HasRecord(sensorStates[id]) =>
                 \E i \in IndicesFor(serverHistory, id) :
                     SameReading(sensorStates[id], serverHistory[i]))
    /\ [][\A id \in DOMAIN sensorStates :
             HasRecord(sensorStates[id]) =>
                 \/ StreamFail(id)
                 \/ /\ id \in DOMAIN sensorStates'
                    /\ HasRecord(sensorStates'[id])]_vars

(* ======================= records of the backend log ==================== *)
\* a step in which the backend classifies a submission successfully
ClassifiedStep ==
    \/ \E id \in BagToSet(streamReqs), o \in Outcomes : ServerPredict(id, o)
    \/ \E o \in Outcomes : ServerManual(o)

\* C24: each successful classification adds exactly one record to the log,
\* the one returned to the client, and nothing else ever changes the log: a
\* failed submission adds none and no record already logged is modified. So
\* the log has as many records as classifications have succeeded.
C24_OneRecordPerSuccess ==
    /\ [][/\ ClassifiedStep =>
                 /\ Len(serverHistory') = Len(serverHistory) + 1
                 /\ IsPrefix(serverHistory, serverHistory')
                 /\ \/ BagIn(serverHistory'[Len(serverHistory')], streamResps')
                    \/ serverHistory'[Len(serverHistory')] \in manualResp'
          /\ ~ClassifiedStep => serverHistory' = serverHistory]_vars
    /\ [](/\ Len(serverHistory) <= events
          /\ BagCardinality(streamResps) + Cardinality(manualResp) <= Len(serverHistory)
          /\ \A r \in BagToSet(streamResps) \cup manualResp :
                 \E i \in 1..Len(serverHistory) : serverHistory[i] = r)

\* two submissions have completed, one classified and one failed: the log
\* holds one record
C24_Witness ==
    /\ events = 2
    /\ Len(serverHistory) = 1
    /\ error \in {"predict", "manual"}
    /\ streamResps = EmptyBag
    /\ manualResp = {}

(* ================== the classifier: softmax and top class ============== *)
\* logits are whole numbers in -MaxLogit .. MaxLogit
MaxLogit == 5

\* probabilities are counted in thousandths: 0 .. ProbScale stands for 0.0 .. 1.0
ProbScale == 1000

\* the class set, in the order of the model's outputs
ClassNames == << "Leak", "Normal" >>

\* exp(-d) for d >= 0, in thousandths, rounded to the nearest
ExpNeg(d) ==
    CASE d = 0 -> 1000
      [] d = 1 -> 368
      [] d = 2 -> 135
      [] d = 3 -> 50
      [] d = 4 -> 18
      [] d = 5 -> 7
      [] d = 6 -> 2
      [] d = 7 -> 1
      [] OTHER -> 0

RECURSIVE SumSeq(_)
SumSeq(s) == IF s = << >> THEN 0 ELSE Head(s) + SumSeq(Tail(s))

\* variant: the exponentials are returned without dividing by their sum
SoftmaxUnnormalised(z) ==
    LET m == SetMax(SeqRange(z)) IN [i \in 1..Len(z) |-> ExpNeg(m - z[i])]

\* softmax with the maximum logit subtracted before exponentiating; the
\* division rounds down to a thousandth
Softmax(z) ==
    LET m == SetMax(SeqRange(z))
        e == [i \in 1..Len(z) |-> ExpNeg(m - z[i])]
    IN [i \in 1..Len(z) |-> (e[i] * ProbScale) \div SumSeq(e)]

RECURSIVE ArgMaxLast(_, _, _)
\* variant: a later class replaces the best one when it is at least as probable
ArgMaxLast(p, i, best) ==
    IF i > Len(p) THEN best
    ELSE ArgMaxLast(p, i + 1, IF p[i] >= p[best] THEN i ELSE best)

RECURSIVE ArgMax(_, _, _)
\* scan of the classes from index i on; best is the best index so far
ArgMax(p, i, best) ==
    IF i > Len(p) THEN best
    ELSE ArgMax(p, i + 1, IF p[i] > p[best] THEN i ELSE best)

\* the classifier: logits -> probabilities -> (label, confidence, severity)
ClassifyLogits(z) ==
    /\ LET probs == Softmax(z)
           top == ArgMax(probs, 1, 1)
       IN classified' =
            {[ logits |-> z,
               probs |-> probs,
               prediction |-> ClassNames[top],
               confidence |-> probs[top],
               severity |-> SeverityAt(ClassNames[top], probs[top],
                                       classifierConfig.t_low * (ProbScale \div MaxConf),
                                       classifierConfig.t_high * (ProbScale \div MaxConf)) ]}
    /\ UNCHANGED << app, now, serverVars, netVars, uiVars, schedVars, events, ghostVars,
                    viewVars, detailVars, classifierConfig, formVars >>

\* the logits vectors the model may return: one score per class
LogitVectors == [1..Len(ClassNames) -> (-MaxLogit)..MaxLogit]

InitClassifier == InitWith("dashboard", NoLimits)

NextClassifier == \E z \in LogitVectors : ClassifyLogits(z)

SpecClassifier == InitClassifier /\ [][NextClassifier]_vars

\* the index of a class in the class set
ClassIndex(label) == CHOOSE i \in 1..Len(ClassNames) : ClassNames[i] = label

\* C25: the label is the class with the maximum probability, the one with
\* the lowest index among the classes that share the maximum, and the
\* confidence is that maximum probability.
C25_TopClassLowestIndex ==
    \A r \in classified :
        LET k == ClassIndex(r.prediction) IN
        /\ \A j \in 1..Len(r.probs) : r.probs[j] <= r.probs[k]
        /\ \A j \in 1..(k - 1) : r.probs[j] < r.probs[k]
        /\ r.confidence = r.probs[k]

\* both classes are equally probable and the first class is the label
C25_Witness ==
    \E r \in classified :
        /\ r.probs[1] = r.probs[Len(ClassNames)]
        /\ r.prediction = ClassNames[1]
        /\ r.confidence = r.probs[1]

\* rounding error of the division: below one thousandth per class
Tolerance == Len(ClassNames)

\* C26: for every logits vector the probabilities sum to 1 within the
\* rounding tolerance, and each of them lies in [0, 1].
C26_SoftmaxIsDistribution ==
    \A r \in classified :
        /\ \A i \in 1..Len(r.probs) : r.probs[i] >= 0 /\ r.probs[i] <= ProbScale
        /\ SumSeq(r.probs) >= ProbScale - Tolerance
        /\ SumSeq(r.probs) <= ProbScale + Tolerance
        /\ Len(r.probs) = Len(r.logits)

\* logits that differ, with probabilities whose sum is off by a rounding error
C26_Witness ==
    \E r \in classified :
        /\ r.logits[1] < r.logits[Len(ClassNames)]
        /\ r.probs[1] > 0
        /\ SumSeq(r.probs) # ProbScale

(* ===================== the state machine of a sensor =================== *)
\* a run of sensor id is in flight: awaiting the backend, or answered and
\* not yet handled
Running(id) ==
    \/ BagIn(id, streamReqs)
    \/ \E r \in BagToSet(streamResps) : r.sensor_id = id

\* STOPPED: no timer (a run begun before the stop may still be finishing);
\* RUNNING: timer live and a run in flight; SCHEDULED: timer live, no run
Phase(id) ==
    IF TimersOf(id) = {} THEN "STOPPED"
    ELSE IF Running(id) THEN "RUNNING"
    ELSE "SCHEDULED"

\* the transitions of the state machine; start fires the first tick at once
PhaseEdges ==
    { << "STOPPED", "SCHEDULED" >>, << "STOPPED", "RUNNING" >>,
      << "SCHEDULED", "RUNNING" >>, << "RUNNING", "SCHEDULED" >>,
      << "SCHEDULED", "STOPPED" >>, << "RUNNING", "STOPPED" >> }

\* C27: each sensor follows STOPPED -> SCHEDULED -> RUNNING -> SCHEDULED: its
\* phase changes along the machine's transitions and a tick fires only for a
\* sensor that is SCHEDULED. A stop is enabled while streaming, whether
\* sensors are SCHEDULED or RUNNING, and takes effect without waiting for
\* runs in flight; those can still be answered and applied, and once the stop
\* has taken effect no timer is left.
C27_SensorStateMachine ==
    /\ [][\A id \in ConfigIds(Configs) :
             /\ Phase(id)' # Phase(id) => << Phase(id), Phase(id)' >> \in PhaseEdges
             /\ (\E i \in TimersOf(id) : TimerFire(i)) => Phase(id) = "SCHEDULED"]_vars
    /\ []((isStreaming /\ events < limits.events) => ENABLED StopStream)
    /\ []((~isStreaming /\ EffectsPending) => ENABLED RunEffects)
    /\ [](Stopped => intervals = << >>)
    /\ [](Stopped => /\ \A id \in BagToSet(streamReqs), o \in Outcomes :
                          events < limits.events => ENABLED ServerPredict(id, o)
                     /\ \A data \in BagToSet(streamResps) : ENABLED StreamSuccess(data))

(* ================== the live view and the log it mirrors =============== *)
\* C28: for every sensor id with nothing left in flight, the live state's
\* latest result is the most recent record logged for that id: label,
\* confidence, timestamp and severity agree, and a live state shows a
\* classification only if the log has a record for the id.
C28_LiveStateMirrorsLog ==
    /\ \A id \in KnownIds :
           SensorQuiet(id) =>
               /\ id \in DOMAIN sensorStates
               /\ SameReading(sensorStates[id], LastFor(serverHistory, id))
    /\ \A id \in DOMAIN sensorStates :
           HasRecord(sensorStates[id]) => id \in KnownIds

(* ============== streaming that is never stopped, with fairness ========= *)
\* either App streams for two intervals and Stop is never clicked
RunningLimits == [events |-> MaxEvents, time |-> 2 * INTERVAL]

InitRunning == \E a \in Apps : InitWith(a, RunningLimits)

NextRunning ==
    \/ RunEffects
    \/ StartStream
    \/ SensorsResponse
    \/ Tick
    \/ \E i \in 1..Len(intervals) : TimerFire(i)
    \/ \E id \in BagToSet(streamReqs), o \in Outcomes : ServerPredict(id, o)
    \/ \E id \in BagToSet(streamReqs) : StreamFail(id)
    \/ \E data \in BagToSet(streamResps) : StreamSuccess(data)

\* React flushes pending effects, time passes, and the event loop runs a
\* timer callback that is due; nothing is assumed about the network
FairRunning ==
    /\ WF_vars(RunEffects)
    /\ WF_vars(Tick)
    /\ \A i \in 1..Len(SENSOR_CONFIGS) : WF_vars(TimerFire(i))

SpecRunning == InitRunning /\ [][NextRunning]_vars /\ FairRunning

\* timer i exists and was created at time t
TimerSince(i, t) == i <= Len(intervals) /\ intervals[i].since = t

\* C29: while streaming is never stopped every sensor's timer keeps firing
\* on the interval: a timer created at time t has eventually fired once for
\* every interval that fits between t and the time horizon, it never fires
\* more or less often than once per elapsed interval, and each firing begins
\* one pipeline run of its sensor.
C29_TicksKeepFiring ==
    /\ \A i \in 1..Len(SENSOR_CONFIGS) : \A t \in {0, INTERVAL} :
           TimerSince(i, t) ~>
               (TimerSince(i, t)
                /\ intervals[i].fired = (RunningLimits.time - t) \div INTERVAL)
    /\ [](\A i \in 1..Len(intervals) :
             intervals[i].fired + (IF intervals[i].due = 0 THEN 1 ELSE 0)
                 = (now - intervals[i].since) \div INTERVAL)
    /\ [][\A i \in 1..Len(intervals) :
             TimerFire(i) =>
                 CopiesIn(intervals[i].id, streamReqs')
                     = CopiesIn(intervals[i].id, streamReqs) + 1]_vars

\* two intervals have passed and every sensor's timer has fired twice,
\* although a run failed and the others were never answered
C29_Witness ==
    /\ now = RunningLimits.time
    /\ intervals # << >>
    /\ \A i \in 1..Len(intervals) : intervals[i].fired = RunningLimits.time \div INTERVAL
    /\ error = "predict"
    /\ serverHistory = << >>

(* ======================= runs in flight per sensor ===================== *)
\* streamed runs of sensor id that have begun and not completed: awaiting the
\* backend, or answered with the state update still to come
RunsInFlight(id) ==
    CopiesIn(id, streamReqs)
      + BagCardinality([r \in {x \in BagToSet(streamResps) : x.sensor_id = id} |->
                           CopiesIn(r, streamResps)])

\* C30: at any time each sensor has at most one pipeline run in flight,
\* across ticks and across a stop followed by a start.
C30_OneRunInFlight ==
    \A id \in ConfigIds(Configs) : RunsInFlight(id) <= 1

(* ========================= the Error mark of a sensor ================== *)
\* C31: a sensor marked 'Error' stays marked until a later successful
\* classification of that sensor is received: whatever replaces the mark is
\* a classification that is not older than the failure; no refresh puts an
\* older record of the sensor, or anything else, in its place.
C31_ErrorMarkStays ==
    [][\A id \in DOMAIN sensorStates :
          sensorStates[id].prediction = "Error" =>
              /\ id \in DOMAIN sensorStates'
              /\ \/ sensorStates'[id].prediction = "Error"
                 \/ /\ HasRecord(sensorStates'[id])
                    /\ sensorStates'[id].timestamp >= sensorStates[id].timestamp]_vars

(* ================== what an update of a live state leaves ============== *)
\* the step touches the entries of the ids in S only: no entry is removed,
\* none is added outside S, the entries of other ids stay as they are, and
\* every entry keeps its name, location and floor
FrameFor(S) ==
    /\ DOMAIN sensorStates \subseteq DOMAIN sensorStates'
    /\ DOMAIN sensorStates' \subseteq (DOMAIN sensorStates) \cup S
    /\ \A id \in DOMAIN sensorStates :
           /\ id \notin S => sensorStates'[id] = sensorStates[id]
           /\ sensorStates'[id].name = sensorStates[id].name
           /\ sensorStates'[id].location = sensorStates[id].location
           /\ sensorStates'[id].floor_reference = sensorStates[id].floor_reference

\* C32: updating a sensor's live state with a result (a streamed response,
\* or the records of a history snapshot) or with an error keeps the
\* sensor's name, location and floor and touches no entry of another id; in
\* the dashboard the keys of the map are always the configured sensor ids.
C32_UpdateKeepsDescriptor ==
    /\ [][/\ \A id \in BagToSet(streamReqs) : StreamFail(id) => FrameFor({id})
          /\ \A data \in BagToSet(streamResps) :
                 StreamSuccess(data) => FrameFor({data.sensor_id})
          /\ \A sent \in BagToSet(histReqs), n \in 0..Len(serverHistory) :
                 HistoryResponse(sent, n) =>
                     FrameFor(IdsIn(SubSeq(serverHistory, 1, n)))]_vars
    /\ [](app = "dashboard" => DOMAIN sensorStates = ConfigIds(SENSOR_CONFIGS))

\* one sensor shows a classification and another the error mark, each
\* under the name and at the place it is configured with
C32_Witness ==
    \E a, b \in ConfigIds(Configs) \cap DOMAIN sensorStates :
        /\ HasRecord(sensorStates[a])
        /\ sensorStates[b].prediction = "Error"
        /\ \A id \in {a, b} :
               /\ sensorStates[id].location = ConfigOf(id).location
               /\ sensorStates[id].name
                      = IF app = "dashboard" THEN ConfigOf(id).name ELSE DisplayName(id)

(* ===================== convergence of the history view ================= *)
\* every classification so far has had its response handled and nothing has
\* failed: the refresh issued last was issued with the whole log in place
AllSuccessesHandled ==
    /\ streamResps = EmptyBag
    /\ manualResp = {}
    /\ events = Len(serverHistory)

\* C33: whenever no history request is in flight the history held by the
\* client is the server history as of the refresh issued last, in whatever
\* order the responses to overlapping refreshes arrived; once every success
\* has been handled, that is the whole log.
C33_HistoryConverges ==
    (histReqs = EmptyBag /\ AllSuccessesHandled /\ serverHistory # << >>) =>
        predictionHistory = serverHistory

(* ===================== starts of the scheduler ========================= *)
\* the streaming effect runs with streaming on and sensors to stream
SchedulerStarts == effectDeps' # effectDeps /\ isStreaming /\ Len(Configs) > 0

\* the timer created for id by the start that is happening at this instant
FreshTimers(id) ==
    {i \in 1..Len(intervals') :
        /\ intervals'[i].id = id
        /\ intervals'[i].since = now
        /\ intervals'[i].fired = 0
        /\ intervals'[i].due = INTERVAL}

\* the timer of id runs now, a whole number of intervals after its start
IntervalRun(id) ==
    \E i \in 1..Len(intervals) :
        /\ intervals[i].id = id
        /\ Len(intervals') = Len(intervals)
        /\ intervals'[i].fired = intervals[i].fired + 1
        /\ now = intervals[i].since + intervals'[i].fired * INTERVAL

\* C34: every start of the scheduler (the first one and each restart) begins
\* one run per registered sensor at once and sets one timer per sensor; after
\* that a sensor's runs begin one at a time, one per elapsed interval; the
\* floor-plan dashboard begins no run while the registry is not loaded.
C34_StartRunsEachSensorOnce ==
    /\ [][SchedulerStarts =>
             \A id \in ConfigIds(Configs) :
                 /\ CopiesIn(id, streamReqs') = CopiesIn(id, streamReqs) + 1
                 /\ Cardinality(FreshTimers(id)) = 1]_vars
    /\ [][\A id \in BagToSet(streamReqs') :
             CopiesIn(id, streamReqs') > CopiesIn(id, streamReqs) =>
                 /\ CopiesIn(id, streamReqs') = CopiesIn(id, streamReqs) + 1
                 /\ \/ SchedulerStarts /\ id \in ConfigIds(Configs)
                    \/ ~SchedulerStarts /\ IntervalRun(id)]_vars
    /\ [](app = "floorplan" /\ allSensors = << >> =>
             streamReqs = EmptyBag /\ intervals = << >>)

\* streaming was restarted one interval after the mount: every sensor has its
\* timer of the restart, the run the restart began and the unanswered run of
\* the first start
C34_Witness ==
    /\ app = "dashboard"
    /\ now = INTERVAL
    /\ events > 0
    /\ Len(intervals) = Len(Configs)
    /\ \A i \in 1..Len(intervals) :
           /\ intervals[i].since = INTERVAL
           /\ intervals[i].fired = 0
           /\ CopiesIn(intervals[i].id, streamReqs) = 1 + 1
    /\ Len(intervals) > 0

(* ===================== the loading flag of the upload ================== *)
\* the POST of a manual upload has been sent and its outcome not yet handled
ManualInFlight == manualReq # NULL \/ manualResp # {}

\* the flag follows the request, a failure clears the latest manual
\* prediction and sets an error, a success resets the inputs
LoadingFollowsRequest ==
    /\ [](loading <=> ManualInFlight)
    /\ [][/\ (~ManualInFlight /\ ManualInFlight') =>
                 /\ handleManualSubmit
                 /\ manualSelectedFile # NULL /\ manualSensorId # ""
                 /\ loading' /\ error' = NULL
          /\ (handleManualSubmit /\ manualSelectedFile # NULL /\ manualSensorId # "") =>
                 ManualInFlight'
          /\ ManualFail =>
                 ~loading' /\ manualLatestPrediction' = {} /\ error' # NULL
          /\ ManualSuccess =>
                 /\ ~loading'
                 /\ manualLatestPrediction' # {}
                 /\ manualSelectedFile' = NULL /\ manualSensorId' = ""]_vars

\* C35: the loading flag is true exactly while a manual prediction request is
\* in flight: a valid submission sets it and the completion of the request
\* resets it; a failure clears the latest manual prediction and sets an
\* error; after a success the error is cleared and the inputs are reset.
C35_LoadingWhileInFlight ==
    /\ LoadingFollowsRequest
    /\ [][ManualSuccess => error' = NULL]_vars

\* C35 as amended: the success branch itself sets no error and leaves the
\* shared error state as it finds it.
C35_SuccessLeavesError ==
    /\ LoadingFollowsRequest
    /\ [][ManualSuccess => error' = error]_vars

\* an upload has failed and the next one has succeeded: the flag is down,
\* the form is empty and the prediction of the second upload is shown
C35_Witness ==
    /\ events = MaxEvents
    /\ Len(serverHistory) = 1
    /\ manualLatestPrediction # {}
    /\ ~loading
    /\ error = NULL
    /\ manualSelectedFile = NULL /\ manualSensorId = ""

(* ===================== the floor of synthesized sensors ================ *)
\* floor_reference a history record may carry: the registry's floor for a
\* registered sensor; for an unregistered one 'Manual' or none at all, the
\* two cases the merge loop provides for (item.floor_reference || "Manual")
RecordFloors(id) ==
    IF id \in ConfigIds(SensorRegistry) THEN {RegistryFloor(id)} ELSE {"Manual", UNDEF}

\* POST /predict for a manual upload, the record carrying floor fl
ServerManualFloor(o, fl) ==
    /\ manualReq # NULL
    /\ manualResp = {}
    /\ events < limits.events
    /\ events' = events + 1
    /\ LET rec == [MakeRecord(app, now, manualReq, o) EXCEPT !.floor_reference = fl] IN
        /\ serverHistory' = Append(serverHistory, rec)
        /\ manualResp' = {rec}
    /\ manualReq' = NULL
    /\ UNCHANGED << app, sideVars, now, sensorsReq, streamReqs, streamResps, histReqs,
                    uiVars, schedVars, ghostVars >>

\* the floor-plan dashboard with streaming off: registry load, manual
\* uploads and history refreshes in any order
InitFloors == InitWith("floorplan", [events |-> MaxEvents, time |-> 0])

NextFloors ==
    \/ RunEffects
    \/ SensorsResponse
    \/ \E id \in ManualIds(app) : ManualSubmit(id)
    \/ \E o \in Outcomes : \E fl \in RecordFloors(manualReq) : ServerManualFloor(o, fl)
    \/ ManualSuccess
    \/ \E sent \in BagToSet(histReqs), n \in 0..Len(serverHistory) : HistoryResponse(sent, n)

SpecFloors == InitFloors /\ [][NextFloors]_vars

\* how often floor f occurs in the list of floors
FloorCount(s, f) == Cardinality({i \in 1..Len(s) : s[i] = f})

\* C36: whenever the sensor map holds a sensor whose floor is 'Manual', the
\* list of available floors contains 'Manual', and it never contains it more
\* than once, whether the registry arrives before or after the first
\* history refresh.
C36_ManualFloorListed ==
    /\ FloorCount(availableFloors, "Manual") <= 1
    /\ (\E id \in DOMAIN sensorStates : sensorStates[id].floor_reference = "Manual") =>
           FloorCount(availableFloors, "Manual") = 1

TypeOK ==
    /\ app \in Apps
    /\ now \in 0..limits.time
    /\ isStreaming \in BOOLEAN
    /\ loading \in BOOLEAN
    /\ IsABag(histReqs)

====
